---- MODULE Spec2Model ----
(***************************************************************************)
(* Model of ccal.association.match (src/ccal/association.py).              *)
(*                                                                         *)
(* One call of match is a run of the state machine: every action is one    *)
(* step of the function body, pc is the position in the body, and the      *)
(* terminal positions are "plotted" (the function returns after the        *)
(* plotting hand-off) and "error" (an exception left the function).        *)
(*                                                                         *)
(* A pandas table is modelled by its labels: `index` is the sequence of    *)
(* row labels, `columns` the sequence of column labels.  The cell values   *)
(* are looked up by label in the inputs (in_values, in_ref_values), as     *)
(* pandas does when it selects or reindexes by label.                      *)
(***************************************************************************)
EXTENDS Integers, Sequences, FiniteSets, TLC

\* ---------------------------------------------------------------- bounds
\* sample keys are 1..NSamples, feature keys are 1..NFeatures
NSamples == 3
NFeatures == 2
\* largest score table the selection specification starts from
MaxTable == 3

Samples == 1..NSamples
Features == 1..NFeatures

\* Python's None (result_filename=None)
None == "None"

VARIABLES
    pc,              \* position in the body of match
    in_columns,      \* features.columns as passed by the caller
    in_ref_index,    \* ref.index as passed by the caller
    in_values,       \* features' cell values, by (feature, sample) label
    in_ref_values,   \* ref's values, by sample label
    opt,             \* the keyword arguments of the call
    features,        \* local `features`: [index, columns]
    ref,             \* local `ref`: its index, a sequence of sample keys
    scores,          \* local `scores`: [index, score, columns]
    annotations,     \* local `annotations`: [index, columns]
    indices_to_plot, \* local `indices_to_plot`
    result_file,     \* the file at result_filename: [written, index, columns]
    score_calls,     \* calls of compute_against_reference, oldest first
    plot_calls,      \* calls of plot_features_against_reference, oldest first
    error,           \* the exception that left match, if any
    steps            \* the steps of the body executed so far, oldest first

vars == <<pc, in_columns, in_ref_index, in_values, in_ref_values, opt, features,
          ref, scores, annotations, indices_to_plot, result_file, score_calls,
          plot_calls, error, steps>>

inputs == <<in_columns, in_ref_index, in_values, in_ref_values, opt>>

\* ---------------------------------------------------------------- helpers
Range(s) == {s[i] : i \in 1..Len(s)}

\* every ordering of the finite set S (the orders iteration over a set can take)
Orderings(S) ==
    {s \in [1..Cardinality(S) -> S] : \A i, j \in 1..Cardinality(S) : s[i] = s[j] => i = j}

Min(a, b) == IF a <= b THEN a ELSE b

\* a rational number num/den, den > 0 (the float and int options of match)
Rat(n, d) == [num |-> n, den |-> d]

NoError == [type |-> "None", where |-> "None", a |-> 0, b |-> 0]
NoTable == [index |-> <<>>, columns |-> <<>>]
NoScores == [index |-> <<>>, score |-> <<>>, columns |-> <<>>]
NoFile == [written |-> FALSE, index |-> <<>>, columns |-> <<>>]

\* ---------------------------------------------------------------- inputs
\* features.columns: the samples 1..a, in ascending order
ColumnChoices == {[i \in 1..a |-> i] : a \in 0..NSamples}

\* ref.index: the samples b..NSamples, in descending order
RefIndexChoices == {[i \in 1..(NSamples - b + 1) |-> NSamples + 1 - i] : b \in 1..(NSamples + 1)}

\* cell values: feature f is non-zero on the samples below f, or on the samples from f on
ValueChoices ==
    { [f \in Features |-> [k \in Samples |-> IF k < f THEN 1 ELSE 0]],
      [f \in Features |-> [k \in Samples |-> IF k >= f THEN 1 ELSE 0]] }

\* ref values: with ties (k % 2) and without (k)
RefValueChoices == { [k \in Samples |-> k % 2], [k \in Samples |-> k] }

MinValueChoices == {-1, 0, 1, 2}
NFeatureChoices == {Rat(1, 1), Rat(19, 20)}
NSamplingChoices == {0, 30}
NPermutationChoices == {0, 30}
FilenameChoices == {None, "result.txt"}

Options ==
    { o \in [ min_n_feature_values : MinValueChoices,
              feature_ascending : BOOLEAN,
              ref_ascending : BOOLEAN,
              ref_sort : BOOLEAN,
              n_features : NFeatureChoices,
              n_samplings : NSamplingChoices,
              n_permutations : NPermutationChoices,
              result_filename : FilenameChoices ] :
        \* ref_ascending is read only when ref_sort is true
        ~o.ref_sort => ~o.ref_ascending }

AllFeatures == [i \in 1..NFeatures |-> i]

Init ==
    /\ pc = "start"
    /\ in_columns \in ColumnChoices
    /\ in_ref_index \in RefIndexChoices
    /\ in_values \in ValueChoices
    /\ in_ref_values \in RefValueChoices
    /\ opt \in Options
    /\ features = [index |-> AllFeatures, columns |-> in_columns]
    /\ ref = in_ref_index
    /\ scores = NoScores
    /\ annotations = NoTable
    /\ indices_to_plot = <<>>
    /\ result_file = NoFile
    /\ score_calls = <<>>
    /\ plot_calls = <<>>
    /\ error = NoError
    /\ steps = <<>>

\* ---------------------------------------------------------------- match
\* Align with the restriction done before the test: the error then reports the
\* sizes of the restricted (empty) tables
AlignRestrictFirst ==
    /\ pc = "start"
    /\ LET col_intersection == Range(features.columns) \cap Range(ref) IN
       \E order \in Orderings(col_intersection) :
          /\ features' = [features EXCEPT !.columns = order]
          /\ ref' = order
          /\ IF col_intersection # {}
             THEN pc' = "aligned" /\ error' = error
             ELSE /\ error' = [type |-> "ValueError", where |-> "intersection",
                               a |-> Len(order), b |-> Len(order)]
                  /\ pc' = "error"
    /\ steps' = Append(steps, "align")
    /\ UNCHANGED <<inputs, scores, annotations, indices_to_plot, result_file,
                   score_calls, plot_calls>>

\* lines 45-55: use intersecting columns, or raise
Align ==
    /\ pc = "start"
    /\ LET col_intersection == Range(features.columns) \cap Range(ref) IN
       IF col_intersection # {}
       THEN \E order \in Orderings(col_intersection) :
              /\ features' = [features EXCEPT !.columns = order]
              /\ ref' = order
              /\ pc' = "aligned"
              /\ error' = error
       ELSE /\ error' = [type |-> "ValueError", where |-> "intersection",
                         a |-> Len(features.columns), b |-> Len(ref)]
            /\ pc' = "error"
            /\ UNCHANGED <<features, ref>>
    /\ steps' = Append(steps, "align")
    /\ UNCHANGED <<inputs, scores, annotations, indices_to_plot, result_file,
                   score_calls, plot_calls>>

\* line 59: (features != 0).sum(axis=1), for the row of feature f
NonZeroCount(f, columns) ==
    Cardinality({i \in 1..Len(columns) : in_values[f][columns[i]] # 0})

\* Filter with > in place of >=
FilterStrict ==
    /\ pc = "aligned"
    /\ LET kept == SelectSeq(features.index,
                     LAMBDA f : NonZeroCount(f, features.columns) > opt.min_n_feature_values) IN
       /\ features' = [features EXCEPT !.index = kept]
       /\ IF kept = <<>>
          THEN /\ error' = [type |-> "ValueError", where |-> "filter",
                            a |-> opt.min_n_feature_values, b |-> 0]
               /\ pc' = "error"
          ELSE /\ pc' = "filtered"
               /\ error' = error
    /\ steps' = Append(steps, "filter")
    /\ UNCHANGED <<inputs, ref, scores, annotations, indices_to_plot, result_file,
                   score_calls, plot_calls>>

\* lines 57-62: drop the rows with too few non-0 values, raise if none is left
Filter ==
    /\ pc = "aligned"
    /\ LET kept == SelectSeq(features.index,
                     LAMBDA f : NonZeroCount(f, features.columns) >= opt.min_n_feature_values) IN
       /\ features' = [features EXCEPT !.index = kept]
       /\ IF kept = <<>>
          THEN /\ error' = [type |-> "ValueError", where |-> "filter",
                            a |-> opt.min_n_feature_values, b |-> 0]
               /\ pc' = "error"
          ELSE /\ pc' = "filtered"
               /\ error' = error
    /\ steps' = Append(steps, "filter")
    /\ UNCHANGED <<inputs, ref, scores, annotations, indices_to_plot, result_file,
                   score_calls, plot_calls>>

\* line 66: the orders ref.sort_values(ascending=...) can return (ties in any order)
SortedOrders(index, ascending) ==
    {s \in Orderings(Range(index)) :
        \A i, j \in 1..Len(s) :
            i < j => IF ascending
                     THEN in_ref_values[s[i]] <= in_ref_values[s[j]]
                     ELSE in_ref_values[s[i]] >= in_ref_values[s[j]]}

\* Sort without line 67: ref is sorted, the feature columns stay as they were
SortRefOnly ==
    /\ pc = "filtered"
    /\ IF opt.ref_sort
       THEN \E order \in SortedOrders(ref, opt.ref_ascending) :
              /\ ref' = order
              /\ steps' = Append(steps, "sort")
       ELSE UNCHANGED <<ref, steps>>
    /\ pc' = "sorted"
    /\ UNCHANGED <<inputs, features, scores, annotations, indices_to_plot, result_file,
                   score_calls, plot_calls, error>>

\* lines 64-67: sort ref and reorder the feature columns to match
Sort ==
    /\ pc = "filtered"
    /\ IF opt.ref_sort
       THEN \E order \in SortedOrders(ref, opt.ref_ascending) :
              /\ ref' = order
              /\ features' = [features EXCEPT !.columns = order]
              /\ steps' = Append(steps, "sort")
       ELSE UNCHANGED <<ref, features, steps>>
    /\ pc' = "sorted"
    /\ UNCHANGED <<inputs, scores, annotations, indices_to_plot, result_file,
                   score_calls, plot_calls, error>>

\* the values the scoring function can give a feature
ScoreValues == {0, 1}

\* the columns of the table compute_against_reference returns
ScoreColumns(n_samplings, n_perms) ==
    <<"score">> \o (IF n_samplings > 2 THEN <<"MoE">> ELSE <<>>)
                \o (IF n_perms >= 1 THEN <<"Global P-value", "FDR">> ELSE <<>>)

\* compute_against_reference: the tables it can return for the rows `index`,
\* one row per feature, sorted by score
compute_against_reference(index, values, ascending, n_samplings, n_perms) ==
    {[index |-> order, score |-> sc, columns |-> ScoreColumns(n_samplings, n_perms)] :
        <<order, sc>> \in
            {t \in Orderings(Range(index)) \X [Range(index) -> values] :
                \A i, j \in 1..Len(t[1]) :
                    i < j => IF ascending
                             THEN t[2][t[1][i]] <= t[2][t[1][j]]
                             ELSE t[2][t[1][i]] >= t[2][t[1][j]]}}

\* Score with compute_against_reference called a second time
ScoreTwice ==
    /\ pc = "sorted"
    /\ \E table \in compute_against_reference(features.index, ScoreValues,
                        opt.feature_ascending, opt.n_samplings, opt.n_permutations) :
          /\ scores' = table
          /\ features' = [features EXCEPT !.index = table.index]
    /\ score_calls' = score_calls \o <<[features |-> features, ref |-> ref],
                                       [features |-> features, ref |-> ref]>>
    /\ pc' = "scored"
    /\ steps' = Append(steps, "score")
    /\ UNCHANGED <<inputs, ref, annotations, indices_to_plot, result_file,
                   plot_calls, error>>

\* lines 69-73: compute the scores, reorder the feature rows as the score table
Score ==
    /\ pc = "sorted"
    /\ \E table \in compute_against_reference(features.index, ScoreValues,
                        opt.feature_ascending, opt.n_samplings, opt.n_permutations) :
          /\ scores' = table
          /\ features' = [features EXCEPT !.index = table.index]
    /\ score_calls' = Append(score_calls, [features |-> features, ref |-> ref])
    /\ pc' = "scored"
    /\ steps' = Append(steps, "score")
    /\ UNCHANGED <<inputs, ref, annotations, indices_to_plot, result_file,
                   plot_calls, error>>

\* Write without the test of result_filename
WriteAlways ==
    /\ pc = "scored"
    /\ result_file' = [written |-> TRUE, index |-> features.index,
                       columns |-> features.columns \o scores.columns]
    /\ steps' = Append(steps, "write")
    /\ pc' = "written"
    /\ UNCHANGED <<inputs, features, ref, scores, annotations, indices_to_plot,
                   score_calls, plot_calls, error>>

\* lines 75-77: write the merged table when result_filename is truthy
Write ==
    /\ pc = "scored"
    /\ IF opt.result_filename # None /\ opt.result_filename # ""
       THEN /\ result_file' = [written |-> TRUE, index |-> features.index,
                               columns |-> features.columns \o scores.columns]
            /\ steps' = Append(steps, "write")
       ELSE UNCHANGED <<result_file, steps>>
    /\ pc' = "written"
    /\ UNCHANGED <<inputs, features, ref, scores, annotations, indices_to_plot,
                   score_calls, plot_calls, error>>

\* lines 79-89: make the annotations; the P-val and FDR columns are read
\* from scores without a test for their presence
Annotate ==
    /\ pc = "written"
    /\ IF "Global P-value" \notin Range(scores.columns)
       THEN /\ error' = [type |-> "KeyError", where |-> "Global P-value", a |-> 0, b |-> 0]
            /\ pc' = "error"
            /\ UNCHANGED annotations
       ELSE IF "FDR" \notin Range(scores.columns)
       THEN /\ error' = [type |-> "KeyError", where |-> "FDR", a |-> 0, b |-> 0]
            /\ pc' = "error"
            /\ UNCHANGED annotations
       ELSE /\ annotations' =
                 [index |-> features.index,
                  columns |-> <<(IF "MoE" \in Range(scores.columns)
                                 THEN "IC(MoE)" ELSE "IC(x.xxx)"), "P-val", "FDR">>]
            /\ pc' = "annotated"
            /\ error' = error
    /\ steps' = Append(steps, "annotate")
    /\ UNCHANGED <<inputs, features, ref, scores, indices_to_plot, result_file,
                   score_calls, plot_calls>>

\* the k-th smallest of the scores of `table`, k in 1..Len(table.index)
KthSmallest(table, k) ==
    LET rows == 1..Len(table.index)
        val(i) == table.score[table.index[i]]
    IN  CHOOSE v \in {val(i) : i \in rows} :
           /\ Cardinality({i \in rows : val(i) < v}) < k
           /\ Cardinality({i \in rows : val(i) <= v}) >= k

\* Series.quantile(q) of the scores, times q.den: linear interpolation between
\* the two order statistics around position q * (n - 1).  The arithmetic is exact
\* (rationals); the code's is in floats, where 1 - 0.95 is not exactly 0.05.
QuantileTimesDen(table, q) ==
    LET n == Len(table.index)
        p == q.num * (n - 1)
        lo == p \div q.den
        rem == p % q.den
    IN  IF rem = 0
        THEN KthSmallest(table, lo + 1) * q.den
        ELSE KthSmallest(table, lo + 1) * q.den
             + (KthSmallest(table, lo + 2) - KthSmallest(table, lo + 1)) * rem

\* SelectByQuantile with > and < in place of >= and <=
SelectByQuantileStrict(table, q) ==
    LET above == QuantileTimesDen(table, q)
        below == QuantileTimesDen(table, Rat(q.den - q.num, q.den))
    IN  SelectSeq(table.index,
                  LAMBDA f : \/ table.score[f] * q.den > above
                             \/ table.score[f] * q.den < below)

\* lines 92-97: the rows at or above the n_features quantile or at or below the
\* (1 - n_features) quantile, in table order
SelectByQuantile(table, q) ==
    LET above == QuantileTimesDen(table, q)
        below == QuantileTimesDen(table, Rat(q.den - q.num, q.den))
    IN  SelectSeq(table.index,
                  LAMBDA f : \/ table.score[f] * q.den >= above
                             \/ table.score[f] * q.den <= below)

\* lines 98-99: scores.index[:n] + scores.index[-n:]
SelectByNumber(table, n) ==
    LET F == Len(table.index) IN
    SubSeq(table.index, 1, Min(n, F)) \o SubSeq(table.index, F - Min(n, F) + 1, F)

\* lines 91-100: limit the features to be plotted
Select ==
    /\ pc = "annotated"
    /\ indices_to_plot' =
          IF opt.n_features.num < opt.n_features.den
          THEN SelectByQuantile(scores, opt.n_features)
          ELSE SelectByNumber(scores, opt.n_features.num)
    /\ pc' = "selected"
    /\ steps' = Append(steps, "select")
    /\ UNCHANGED <<inputs, features, ref, scores, annotations, result_file,
                   score_calls, plot_calls, error>>

\* lines 102-107: hand the selected rows to plot_features_against_reference
Plot ==
    /\ pc = "selected"
    /\ plot_calls' = Append(plot_calls,
          [features |-> [index |-> indices_to_plot, columns |-> features.columns],
           ref |-> ref,
           annotations |-> [index |-> indices_to_plot, columns |-> annotations.columns]])
    /\ pc' = "plotted"
    /\ steps' = Append(steps, "plot")
    /\ UNCHANGED <<inputs, features, ref, scores, annotations, indices_to_plot,
                   result_file, score_calls, error>>

Next == Align \/ Filter \/ Sort \/ Score \/ Write \/ Annotate \/ Select \/ Plot

Spec == Init /\ [][Next]_vars

\* ------------------------------------------------- the selection on its own
\* The selection (lines 91-107) reads only the score table and n_features, so it
\* is also checked from every small sorted score table, and from the table of
\* 100 features with the scores 1..100, with match at line 91.

\* score tables of m rows, features 1..m in table order, scores in 0..MaxTable
SortedTables(ascending) ==
    UNION { {[index |-> [i \in 1..m |-> i], score |-> sc, columns |-> ScoreColumns(0, 30)] :
               sc \in {t \in [1..m -> 0..MaxTable] :
                         \A i, j \in 1..m :
                            i < j => IF ascending THEN t[i] <= t[j] ELSE t[i] >= t[j]}} :
            m \in 1..MaxTable }

\* 100 features with uniformly spread scores: feature i has score 101 - i
UniformTable ==
    [index |-> [i \in 1..100 |-> i], score |-> [i \in 1..100 |-> 101 - i],
     columns |-> ScoreColumns(0, 30)]

SelectNFeatureChoices ==
    {Rat(n, 1) : n \in 1..MaxTable} \cup {Rat(1, 2), Rat(3, 4), Rat(19, 20)}

SelectInit ==
    /\ pc = "annotated"
    /\ in_columns = <<1>>
    /\ in_ref_index = <<1>>
    /\ in_ref_values = [k \in {1} |-> 1]
    /\ \E ascending \in BOOLEAN, n \in SelectNFeatureChoices :
          /\ opt = [min_n_feature_values |-> 0, feature_ascending |-> ascending,
                    ref_ascending |-> FALSE, ref_sort |-> FALSE, n_features |-> n,
                    n_samplings |-> 0, n_permutations |-> 30, result_filename |-> None]
          /\ \/ scores \in SortedTables(ascending)
             \/ ascending = FALSE /\ n = Rat(19, 20) /\ scores = UniformTable
    /\ in_values = [f \in Range(scores.index) |-> [k \in {1} |-> 1]]
    /\ features = [index |-> scores.index, columns |-> <<1>>]
    /\ ref = <<1>>
    /\ annotations = [index |-> scores.index, columns |-> <<"IC(x.xxx)", "P-val", "FDR">>]
    /\ indices_to_plot = <<>>
    /\ result_file = NoFile
    /\ score_calls = <<[features |-> features, ref |-> ref]>>
    /\ plot_calls = <<>>
    /\ error = NoError
    /\ steps = <<"align", "filter", "score", "annotate">>

SelectNext == Select \/ Plot

SpecSelect == SelectInit /\ [][SelectNext]_vars
\* ---------------------------------------------------------------- claims

\* C1: whenever the feature columns and the ref index passed to match share no
\* key, match ends in the ValueError that reports the number of feature columns
\* and the size of ref as passed, and alignment is the only step taken: no row
\* is filtered, nothing is scored, written or handed to the plot.
EmptyIntersectionFailsFirst ==
    (Range(in_columns) \cap Range(in_ref_index) = {} /\ pc # "start") =>
        /\ pc = "error"
        /\ error = [type |-> "ValueError", where |-> "intersection",
                    a |-> Len(in_columns), b |-> Len(in_ref_index)]
        /\ steps = <<"align">>
        /\ features = [index |-> AllFeatures, columns |-> in_columns]
        /\ score_calls = <<>>
        /\ result_file = NoFile
        /\ plot_calls = <<>>

EmptyIntersectionWitness ==
    /\ pc = "error"
    /\ error.where = "intersection"
    /\ error.a > 0
    /\ error.b > error.a

\* C2: in every call of compute_against_reference and every call of the plotting
\* function, the feature columns and the ref index are the same sequence of keys,
\* without repetition, and its keys are exactly the keys common to the feature
\* columns and the ref index passed to match, with ref_sort true or false.
AlignedAtScoringAndPlotting ==
    LET common == Range(in_columns) \cap Range(in_ref_index)
        aligned(c) == /\ c.features.columns = c.ref
                      /\ Range(c.ref) = common
                      /\ Len(c.ref) = Cardinality(common)
    IN  /\ \A i \in 1..Len(score_calls) : aligned(score_calls[i])
        /\ \A i \in 1..Len(plot_calls) : aligned(plot_calls[i])

AlignedWitness ==
    /\ pc = "plotted"
    /\ opt.ref_sort
    /\ Len(plot_calls[1].ref) = NSamples
    /\ plot_calls[1].ref # in_columns
    /\ plot_calls[1].ref # in_ref_index

MissingColumnsNoCrash ==
    ((opt.n_permutations < 1 \/ opt.n_samplings <= 2) /\ score_calls # <<>>) =>
        pc # "error"

\* C5: when match has ended in an error, the result file has not been written
\* and the plotting function has not been called.
ErrorLeavesNoOutput ==
    pc = "error" => (result_file = NoFile /\ plot_calls = <<>>)

\* C6: a call with a negative min_n_feature_values is rejected before any step
\* of the body is taken.
MalformedOptionRejectedFirst ==
    (opt.min_n_feature_values < 0 /\ pc # "start") =>
        (pc = "error" /\ error.where = "option" /\ steps = <<>>)

\* C7: with n_features < 1 the features handed to the plot are exactly those
\* whose score is >= the n_features quantile or <= the (1 - n_features)
\* quantile of all scores; of 100 features with the scores 1..100 and
\* n_features = 0.95, the 5 highest and the 5 lowest are handed over.
QuantileSelection ==
    LET q == opt.n_features
        n == Len(scores.index)
        \* the k-th smallest score, read off the sorted table
        stat(k) == IF opt.feature_ascending
                   THEN scores.score[scores.index[k]]
                   ELSE scores.score[scores.index[n + 1 - k]]
        \* the quantile r.num / r.den of the scores, times r.den
        quantile(r) ==
            LET lo == (r.num * (n - 1)) \div r.den
                rem == (r.num * (n - 1)) % r.den
            IN  stat(lo + 1) * r.den
                + (IF rem = 0 THEN 0 ELSE (stat(lo + 2) - stat(lo + 1)) * rem)
        handed == plot_calls[1].features.index
    IN  (pc = "plotted" /\ q.num < q.den) =>
            /\ Range(handed) =
                  {f \in Range(scores.index) :
                      \/ scores.score[f] * q.den >= quantile(q)
                      \/ scores.score[f] * q.den <= quantile(Rat(q.den - q.num, q.den))}
            /\ (scores = UniformTable /\ q = Rat(19, 20)) =>
                  /\ Len(handed) = 10
                  /\ {scores.score[f] : f \in Range(handed)} = (1..5) \cup (96..100)

QuantileWitness ==
    /\ pc = "plotted"
    /\ scores = UniformTable
    /\ opt.n_features = Rat(19, 20)
    /\ Len(plot_calls[1].features.index) = 10

StepsInOrder ==
    LET expected == <<"align", "filter">>
                    \o (IF opt.ref_sort THEN <<"sort">> ELSE <<>>)
                    \o <<"score">>
                    \o (IF opt.result_filename # None THEN <<"write">> ELSE <<>>)
                    \o <<"annotate", "select", "plot">>
    IN  /\ Len(steps) <= Len(expected)
        /\ steps = SubSeq(expected, 1, Len(steps))
        /\ Len(score_calls) = (IF "score" \in Range(steps) THEN 1 ELSE 0)
        /\ Len(plot_calls) = (IF "plot" \in Range(steps) THEN 1 ELSE 0)
        /\ (opt.result_filename # None /\ plot_calls # <<>>) => result_file.written
        /\ pc = "plotted" => steps = expected

StepsInOrderWitness ==
    /\ pc = "plotted"
    /\ opt.ref_sort
    /\ opt.result_filename # None
    /\ Len(steps) = 8

\* C10: with n_features >= 1 the list handed to the plot is the n_features first
\* rows followed by the n_features last rows of the score table, holds no
\* feature twice, and has min(2 * n_features, F) entries, F the number of rows.
TopBottomWithoutRepetition ==
    LET n == opt.n_features.num
        F == Len(scores.index)
        handed == plot_calls[1].features.index
    IN  (pc = "plotted" /\ opt.n_features.num >= opt.n_features.den) =>
            /\ handed = SubSeq(scores.index, 1, Min(n, F))
                        \o SubSeq(scores.index, F - Min(n, F) + 1, F)
            /\ \A i, j \in 1..Len(handed) : handed[i] = handed[j] => i = j
            /\ Len(handed) = Min(2 * n, F)
====
